---- MODULE Spec2Model ----
(***************************************************************************)
(* CanSocket (bsw/src/communication/CanSocket.h): a SocketCAN endpoint.    *)
(* The constructor runs the initialisation pipeline (socket, interface     *)
(* lookup, bind, CAN FD mode) and send() encodes one classic or CAN FD     *)
(* frame and hands it to the POSIX write.                                  *)
(*                                                                         *)
(* Memory is modelled at byte level: the frame buffer of send() is a       *)
(* function from byte offsets 0..71 to byte values, laid out as struct     *)
(* canfd_frame on a little-endian host.                                    *)
(***************************************************************************)
EXTENDS Integers, Sequences, FiniteSets, TLC

(***************************************************************************)
(* Bounds of the model.                                                    *)
(***************************************************************************)
\* number of payload contents a caller may pass
NumPatterns == 2

(***************************************************************************)
(* Program constants.                                                      *)
(***************************************************************************)
\* CAN_STD::DATA_LEN
CAN_STD_DATA_LEN == 8
\* CAN_FD::DATA_LEN
CAN_FD_DATA_LEN == 64
\* offset of the data field in struct can_frame / struct canfd_frame:
\* can_id (4 bytes), len (1), flags (1), __res0 (1), __res1 (1)
DataOff == 8
\* offset of the len / can_dlc field
LenOff == 4
\* IFNAMSIZ of <net/if.h>
IFNAMSIZ == 16
\* largest value of AR::uint8, the type of send()'s len
UINT8_MAX == 255

\* sizeof(struct can_frame) = CAN_MTU
CAN_MTU == DataOff + CAN_STD_DATA_LEN
\* sizeof(struct canfd_frame) = CANFD_MTU = m_can_mtu
CANFD_MTU == DataOff + CAN_FD_DATA_LEN

Byte == 0..255

\* the two payload containers: CanStdData and CanFDData
Kinds == {"STD", "FD"}

\* data.size() of the container
Capacity(kind) == IF kind = "STD" THEN CAN_STD_DATA_LEN ELSE CAN_FD_DATA_LEN

\* OS error codes a failing call may leave in errno (ENETDOWN, ENOBUFS)
Errnos == {100, 105}

Patterns == 1..NumPatterns

\* the identifier sent with payload content pat: 0x123 with the first content,
\* then 0x12345678 (all four bytes in use), 0x12345679, ..
CanIdOf(pat) == IF pat = 1 THEN 291 ELSE 305419894 + pat

\* the messages callers pass: an identifier and a payload content
Messages == {<<CanIdOf(pat), pat>> : pat \in Patterns}

\* values an indeterminate byte may hold: memory the program has not written
\* (an uninitialised object, the bytes behind the end of an array)
IndetBytes == {0, 165}

(***************************************************************************)
(* Interface names.  A name is a sequence of character codes without the   *)
(* terminating NUL; the char array passed to the constructor has N =       *)
(* Len(name) + 1 elements.                                                 *)
(***************************************************************************)
\* "can0"
NameCan0 == <<99, 97, 110, 48>>
\* "nocan"
NameNoCan == <<110, 111, 99, 97, 110>>
\* a name of n characters 'a' + (i % 3)
LongName(n) == [i \in 1..n |-> 97 + (i % 3)]

IfNames == {NameCan0, NameNoCan, LongName(IFNAMSIZ - 1), LongName(IFNAMSIZ),
            LongName(IFNAMSIZ + 1)}

\* interfaces registered with the kernel, and their indices
OsIfIndex(name) ==
    IF name = NameCan0 THEN 3
    ELSE IF name = LongName(IFNAMSIZ - 1) THEN 4
    ELSE 0

\* the C string held in a char array: the characters before the first NUL
RECURSIVE CStr(_, _)
CStr(arr, i) ==
    IF i > Len(arr) \/ arr[i] = 0 THEN <<>> ELSE <<arr[i]>> \o CStr(arr, i + 1)

\* std::strncpy(dest, src, n) into a fresh destination of n chars: copies at
\* most n characters of src and pads with NUL up to n
StrNCpy(src, n) == [i \in 1..n |-> IF i <= Len(src) THEN src[i] ELSE 0]

VARIABLES
    pc,             \* position of the program: constructor step, idle, returned, aborted
    ifname,         \* interface_str passed to the constructor
    sock_init,      \* is_socket_initialized() of the Socket base
    m_ifr_name,     \* m_ifr.ifr_name
    m_ifr_ifindex,  \* m_ifr.ifr_ifindex
    m_can_init,     \* m_can_init
    m_last_error,   \* m_last_error of the Socket base
    errno,          \* errno of the calling thread
    oscalls,        \* initialisation calls made to the OS, in order, with their outcome
    call,           \* the member call in progress or just finished
    ret,            \* <<v>> when the call returned v, <<>> otherwise
    oswrite,        \* the POSIX write made by the call: size, buffer, result, errno
    rdEnd,          \* the call read the payload container at the indices 0..rdEnd-1
    wrEnd,          \* the call wrote frame.data at the indices 0..wrEnd-1
    rx              \* what a receive call met and handed back: event, can_id, data

vars == <<pc, ifname, sock_init, m_ifr_name, m_ifr_ifindex, m_can_init,
          m_last_error, errno, oscalls, call, ret, oswrite, rdEnd, wrEnd, rx>>

NoCall == [op |-> "none"]
NoWrite == [called |-> FALSE]
NoRx == [event |-> "none"]

obsVars == <<call, ret, oswrite, rdEnd, wrEnd, rx>>
ifrVars == <<m_ifr_name, m_ifr_ifindex>>

Init ==
    /\ pc = "new"
    /\ ifname \in IfNames
    /\ sock_init = FALSE
    /\ \E g \in IndetBytes : m_ifr_name = [i \in 1..IFNAMSIZ |-> g]
    /\ m_ifr_ifindex = 0
    /\ m_can_init = FALSE
    /\ m_last_error = 0
    /\ errno = 0
    /\ oscalls = <<>>
    /\ call = NoCall
    /\ ret = <<>>
    /\ oswrite = NoWrite
    /\ rdEnd = 0
    /\ wrEnd = 0
    /\ rx = NoRx

\* one initialisation call to the OS and its outcome
OsCall(name, ok) == [fn |-> name, ok |-> ok]

\* an OS call that fails leaves its error code in errno
Fails(ok) == IF ok THEN errno' = errno ELSE errno' \in Errnos


(***************************************************************************)
(* Parts of the repository outside CanSocket.h (Socket.h, CanSocket.cpp):  *)
(* the Socket base class and the out-of-line members.  Each makes one OS   *)
(* call; a failing call leaves its error code in errno and the member      *)
(* records it as the last error.                                           *)
(***************************************************************************)
\* effect of one initialisation call named fn with outcome ok
OsInitCall(fn, ok) ==
    /\ oscalls' = Append(oscalls, OsCall(fn, ok))
    /\ Fails(ok)
    /\ m_last_error' = IF ok THEN m_last_error ELSE errno'

\* CanSocket::create(): socket(PF_CAN, SOCK_RAW, CAN_RAW)
create(ok) == OsInitCall("socket", ok)

\* CanSocket::bind_if_socket(): bind() to m_ifr.ifr_ifindex
bind_if_socket(ok) == OsInitCall("bind", ok)

\* CanSocket::enable_canfd(): setsockopt(CAN_RAW_FD_FRAMES)
enable_canfd(ok) == OsInitCall("setsockopt", ok)

\* CanSocket::is_can_initialized()
is_can_initialized == m_can_init

\* Socket< CanSocket >::Socket(SocketType::CAN): creates the socket
SocketBase ==
    /\ pc = "new"
    /\ \E ok \in BOOLEAN :
          /\ create(ok)
          /\ sock_init' = ok
    /\ pc' = "ctor"
    /\ UNCHANGED <<ifname, ifrVars, m_can_init, obsVars>>

(***************************************************************************)
(* CanSocket::check_interface                                              *)
(***************************************************************************)
\* fault variant of StoredName: strncpy over the whole array and no
\* terminating assignment
StoredName_Unterminated(interface_str) == StrNCpy(interface_str, IFNAMSIZ)

\* m_ifr.ifr_name after strncpy(m_ifr.ifr_name, interface_str, IFNAMSIZ - 1)
\* and m_ifr.ifr_name[IFNAMSIZ - 1] = '\0'
StoredName(interface_str) ==
    [i \in 1..IFNAMSIZ |->
        IF i = IFNAMSIZ THEN 0 ELSE StrNCpy(interface_str, IFNAMSIZ - 1)[i]]

\* if_nametoindex(m_ifr.ifr_name)
if_nametoindex(arr) == OsIfIndex(CStr(arr, 1))

\* return value of check_interface
check_interface(interface_str) ==
    if_nametoindex(StoredName(interface_str)) # 0

(***************************************************************************)
(* CanSocket::CanSocket                                                    *)
(***************************************************************************)
\* sock_created == FALSE: "Socket creation failed."
CtorSocketFailed ==
    /\ pc = "ctor"
    /\ sock_init = FALSE
    /\ m_can_init' = FALSE
    /\ pc' = "idle"
    /\ UNCHANGED <<ifname, sock_init, ifrVars, m_last_error, errno, oscalls, obsVars>>

\* fault variant of CtorCheckInterface: goes on to bind whatever
\* check_interface returned
CtorCheckInterface_NoBranch ==
    /\ pc = "ctor"
    /\ sock_init = TRUE
    /\ m_ifr_name' = StoredName(ifname)
    /\ m_ifr_ifindex' = if_nametoindex(m_ifr_name')
    /\ oscalls' = Append(oscalls, OsCall("if_nametoindex", m_ifr_ifindex' # 0))
    /\ Fails(m_ifr_ifindex' # 0)
    /\ pc' = "bind"
    /\ UNCHANGED <<ifname, sock_init, m_can_init, m_last_error, obsVars>>

\* sock_created == TRUE: check_interface(interface_str) and the branch on it
CtorCheckInterface ==
    /\ pc = "ctor"
    /\ sock_init = TRUE
    /\ m_ifr_name' = StoredName(ifname)
    /\ m_ifr_ifindex' = if_nametoindex(m_ifr_name')
    /\ oscalls' = Append(oscalls, OsCall("if_nametoindex", m_ifr_ifindex' # 0))
    /\ Fails(m_ifr_ifindex' # 0)
    /\ IF check_interface(ifname)
       THEN /\ pc' = "bind"
            /\ UNCHANGED m_can_init
       ELSE /\ m_can_init' = FALSE
            /\ pc' = "idle"
    /\ UNCHANGED <<ifname, sock_init, m_last_error, obsVars>>

\* interface_exists == TRUE: bind_if_socket() and the branch on it
CtorBind ==
    /\ pc = "bind"
    /\ \E ok \in BOOLEAN :
          /\ bind_if_socket(ok)
          /\ IF ok
             THEN /\ pc' = "canfd"
                  /\ UNCHANGED m_can_init
             ELSE /\ m_can_init' = FALSE
                  /\ pc' = "idle"
    /\ UNCHANGED <<ifname, sock_init, ifrVars, obsVars>>

\* fault variant of CtorEnableCanfd: the result of enable_canfd() is dropped
\* and the endpoint is marked initialised once the bind succeeded
CtorEnableCanfd_IgnoresResult ==
    /\ pc = "canfd"
    /\ \E canfd \in BOOLEAN :
          /\ enable_canfd(canfd)
          /\ m_can_init' = TRUE
    /\ pc' = "idle"
    /\ UNCHANGED <<ifname, sock_init, ifrVars, obsVars>>

\* bind_success == TRUE: m_can_init = enable_canfd()
CtorEnableCanfd ==
    /\ pc = "canfd"
    /\ \E canfd \in BOOLEAN :
          /\ enable_canfd(canfd)
          /\ m_can_init' = canfd
    /\ pc' = "idle"
    /\ UNCHANGED <<ifname, sock_init, ifrVars, obsVars>>

(***************************************************************************)
(* CanSocket::send                                                         *)
(***************************************************************************)
Min(a, b) == IF a < b THEN a ELSE b

\* fault variant of Narrow8: a signed type of 7 bits
Narrow8_SevenBits(x) == ((x + 64) % 128) - 64

\* static_cast< AR::sint8 >(x)
Narrow8(x) == ((x + 128) % 256) - 128

\* the caller's payload container: element i of content pat
Payload(kind, pat) == [i \in 0..(Capacity(kind) - 1) |-> ((i + 1) * pat) % 256]

\* sizeof(SelectedFrame): struct can_frame for CanStdData, struct canfd_frame
\* for CanFDData
SizeofSelectedFrame(kind) == IF kind = "STD" THEN CAN_MTU ELSE CANFD_MTU

\* struct canfd_frame frame; an automatic object without initialiser
FrameDecl(g) == [o \in 0..(CANFD_MTU - 1) |-> g]

\* fault variant of MemSet0: the frame is not cleared
MemSet0_Omitted(frame, n) == frame

\* std::memset(&frame, 0, n)
MemSet0(frame, n) == [o \in DOMAIN frame |-> IF o < n THEN 0 ELSE frame[o]]

\* frame.can_id = can_id: a 32-bit value stored least significant byte first
SetCanId(frame, can_id) ==
    [o \in DOMAIN frame |->
        IF o = 0 THEN can_id % 256
        ELSE IF o = 1 THEN (can_id \div 256) % 256
        ELSE IF o = 2 THEN (can_id \div 65536) % 256
        ELSE IF o = 3 THEN (can_id \div 16777216) % 256
        ELSE frame[o]]

\* frame.len = std::min(static_cast< size_t >(len), data.size())
SetLen(frame, kind, len) ==
    [frame EXCEPT ![LenOff] = Min(len, Capacity(kind))]

\* data[i]: an index past the end of the container reads an indeterminate byte
Load(data, i, g) == IF i \in DOMAIN data THEN data[i] ELSE g

\* number of passes of: for (AR::uint8 i = 0U; i < len; ++i)
CopyBound(kind, len) == len

\* fault variant of CopyLoop: the last pass is left out
CopyLoop_SkipsLast(frame, data, n, g) ==
    [o \in DOMAIN frame |->
        IF o >= DataOff /\ o - DataOff < n - 1
        THEN Load(data, o - DataOff, g)
        ELSE frame[o]]

\* the frame after the passes i = 0, 1, .. n - 1 of the copy loop, each doing
\* frame.data[i] = data[i].  The passes write distinct bytes, so the byte at
\* offset o holds what the one pass i = o - DataOff stored there, if that pass
\* ran.  A pass with DataOff + i past the end of the frame object writes behind
\* it, on the stack, and leaves the frame as it is.
CopyLoop(frame, data, n, g) ==
    [o \in DOMAIN frame |->
        IF o >= DataOff /\ o - DataOff < n
        THEN Load(data, o - DataOff, g)
        ELSE frame[o]]

(***************************************************************************)
(* The copy loop has undefined behaviour when it runs past the container   *)
(* (i >= data.size()) or past frame.data (i >= CAN_FD_DATA_LEN).  What a   *)
(* build makes of it:                                                      *)
(*   "continue"         the accesses go to adjacent memory, send goes on   *)
(*   "abort_at_read"    std::array::operator[] checks the index (library   *)
(*                      assertions) and terminates the process             *)
(*   "abort_at_return"  the stack protector finds the overwritten stack    *)
(*                      when send returns and terminates the process       *)
(***************************************************************************)
UbOutcomes(kind, n) ==
    IF n <= Capacity(kind) THEN {"defined"}
    ELSE IF n <= CAN_FD_DATA_LEN THEN {"continue", "abort_at_read"}
    ELSE {"continue", "abort_at_read", "abort_at_return"}

\* what write(socket, &frame, size) may return: -1 with errno set, 0, a
\* partial byte count (the smallest and the largest are taken) or size
WriteResults(size) == {-1, 0, 1, size - 1, size}

\* the first size bytes of the frame object, as handed to write
Envelope(frame, size) == [o \in 0..(size - 1) |-> frame[o]]

\* fault variant of WriteSize: sizeof(frame), the size of the buffer object
WriteSize_Mtu(kind) == CANFD_MTU

\* size argument of the write
WriteSize(kind) == SizeofSelectedFrame(kind)

\* fault variants of SendGuard: one of the two conditions is missing
SendGuard_LenOnly(len) == len > 0

SendGuard_InitOnly(len) == is_can_initialized

\* the condition guarding the transmission
SendGuard(len) == is_can_initialized /\ len > 0

\* fault variants of SendLastError: the first error is kept; a successful
\* write clears the last error
SendLastError_KeepFirst(data_sent, old, err) ==
    IF data_sent <= 0 /\ old = 0 THEN err ELSE old

SendLastError_ClearOnSuccess(data_sent, old, err) ==
    IF data_sent <= 0 THEN err ELSE 0

\* m_last_error after the write returned data_sent
SendLastError(data_sent, old, err) == IF data_sent <= 0 THEN err ELSE old

\* the value send returns after the write returned data_sent
SendResult(data_sent) == IF data_sent <= 0 THEN -1 ELSE data_sent

\* fault variant of CanInitAfterSend: a failed write marks the endpoint as
\* not initialised
CanInitAfterSend_FailOnError(old, w) ==
    IF w.called /\ w.res <= 0 THEN FALSE ELSE old

\* m_can_init after a send that made the write w, or none: send has no
\* assignment to m_can_init
CanInitAfterSend(old, w) == old

\* send, with the values the write may return given as results
SendWith(kind, can_id, pat, len, results) ==
    /\ pc = "idle"
    /\ call' = [op |-> "send", kind |-> kind, can_id |-> can_id, pat |-> pat,
                len |-> len, ready |-> is_can_initialized,
                last_error |-> m_last_error]
    /\ IF SendGuard(len)
       THEN \E g \in IndetBytes, ub \in UbOutcomes(kind, CopyBound(kind, len)) :
              \* the caller's container, and the frame as it is before the
              \* copy loop: declared, cleared, can_id and len set
              \E data \in {Payload(kind, pat)},
                 header \in {SetLen(SetCanId(MemSet0(FrameDecl(g),
                                                     SizeofSelectedFrame(kind)),
                                             can_id),
                                    kind, len)} :
              LET n == CopyBound(kind, len)
                  \* the pass at which the process is terminated, if it is
                  stop == IF ub = "abort_at_read" THEN Capacity(kind) ELSE n
                  frame == CopyLoop(header, data, stop, g)
              IN  /\ wrEnd' = stop
                  /\ rdEnd' = IF ub = "abort_at_read" THEN stop + 1 ELSE stop
                  /\ IF ub = "abort_at_read"
                     THEN /\ pc' = "aborted"
                          /\ oswrite' = NoWrite
                          /\ ret' = <<>>
                          /\ UNCHANGED <<m_last_error, errno>>
                     ELSE \E send_res \in results :
                            LET data_sent == Narrow8(send_res)
                            IN  /\ Fails(send_res # -1)
                                /\ oswrite' = [called |-> TRUE,
                                               size |-> WriteSize(kind),
                                               buf |-> Envelope(frame, WriteSize(kind)),
                                               res |-> send_res,
                                               err |-> errno']
                                /\ m_last_error' =
                                       SendLastError(data_sent, m_last_error, errno')
                                /\ IF ub = "abort_at_return"
                                   THEN /\ pc' = "aborted"
                                        /\ ret' = <<>>
                                   ELSE /\ pc' = "returned"
                                        /\ ret' = <<SendResult(data_sent)>>
       ELSE /\ ret' = <<-1>>
            /\ pc' = "returned"
            /\ oswrite' = NoWrite
            /\ rdEnd' = 0
            /\ wrEnd' = 0
            /\ UNCHANGED <<m_last_error, errno>>
    /\ m_can_init' = CanInitAfterSend(m_can_init, oswrite')
    /\ UNCHANGED <<ifname, sock_init, ifrVars, oscalls, rx>>

send(kind, can_id, pat, len) ==
    SendWith(kind, can_id, pat, len, WriteResults(WriteSize(kind)))

\* the caller, between two calls, calls send with some identifier, payload
\* container and length
Call ==
    /\ pc = "idle"
    /\ \E kind \in Kinds, msg \in Messages, len \in 0..UINT8_MAX :
          send(kind, msg[1], msg[2], len)

\* the caller takes the returned value and goes on
Resume ==
    /\ pc = "returned"
    /\ pc' = "idle"
    /\ call' = NoCall
    /\ ret' = <<>>
    /\ oswrite' = NoWrite
    /\ rdEnd' = 0
    /\ wrEnd' = 0
    /\ rx' = NoRx
    /\ UNCHANGED <<ifname, sock_init, ifrVars, m_can_init, m_last_error, errno, oscalls>>

Next ==
    \/ SocketBase
    \/ CtorSocketFailed
    \/ CtorCheckInterface
    \/ CtorBind
    \/ CtorEnableCanfd
    \/ Call
    \/ Resume

Spec == Init /\ [][Next]_vars

(***************************************************************************)
(* The same program with a write that may report every byte count up to   *)
(* the size it was given; the caller passes the shortest and the longest  *)
(* length a container holds.                                              *)
(***************************************************************************)
\* every value write(socket, &frame, size) may return
AllWriteResults(size) == -1..size

CallAnyCount ==
    /\ pc = "idle"
    /\ \E kind \in Kinds, msg \in Messages :
          \E len \in {1, Capacity(kind)} :
             SendWith(kind, msg[1], msg[2], len, AllWriteResults(WriteSize(kind)))

NextAnyCount ==
    \/ SocketBase
    \/ CtorSocketFailed
    \/ CtorCheckInterface
    \/ CtorBind
    \/ CtorEnableCanfd
    \/ CallAnyCount
    \/ Resume

SpecAnyCount == Init /\ [][NextAnyCount]_vars

(***************************************************************************)
(* The two receive overloads.  CanSocket.h declares them and documents     *)
(* their return values; their bodies are in CanSocket.cpp.  They are       *)
(* modelled after the specification: a buffer of the largest frame shape,  *)
(* cleared, is filled by the read; the identifier and the payload are      *)
(* decoded from it.  The blocking overload is called by a peer endpoint on *)
(* the same bus, the overload with a timeout by this endpoint.             *)
(***************************************************************************)
\* the lengths of the frames that arrive from the bus
RxLens(kind) == {1, Capacity(kind)}

\* the timeouts the caller passes, in microseconds
Timeouts == {0, 1000}

\* the bytes of a frame on the bus, as a correct sender has put them there
WireFrame(kind, can_id, pat, len) ==
    Envelope(CopyLoop(SetLen(SetCanId(MemSet0(FrameDecl(0), CANFD_MTU), can_id),
                             kind, len),
                      Payload(kind, pat), len, 0),
             SizeofSelectedFrame(kind))

\* the receive buffer, a cleared struct canfd_frame, after the read has
\* stored the bytes buf at its start
ReadInto(buf) ==
    [o \in 0..(CANFD_MTU - 1) |-> IF o \in DOMAIN buf THEN buf[o] ELSE 0]

\* can_id = frame.can_id
GetCanId(frame) ==
    frame[0] + 256 * frame[1] + 65536 * frame[2] + 16777216 * frame[3]

\* data_ref[i] = frame.data[i] for every element of a container of cap bytes
GetData(frame, cap) == [i \in 0..(cap - 1) |-> frame[DataOff + i]]

\* what a receive into a container of cap bytes hands back for the bytes buf
\* of the frame from: the byte count read, the identifier, the payload
Received(buf, cap, from) ==
    [event |-> "frame", from |-> from, n |-> Narrow8(Cardinality(DOMAIN buf)),
     can_id |-> GetCanId(ReadInto(buf)), data |-> GetData(ReadInto(buf), cap)]

\* the value the blocking receive returns: the byte count, -1 after an error
BlockingResult(event, n) == IF event = "frame" THEN n ELSE -1

\* fault variant of TimedResult: a timeout is reported like an error
TimedResult_TimeoutAsError(event, n) == IF event = "frame" THEN n ELSE -1

\* the value the receive with a timeout returns: the byte count, 0 after a
\* timeout, -1 after an error
TimedResult(event, n) ==
    IF event = "frame" THEN n ELSE IF event = "timeout" THEN 0 ELSE -1

\* receive(can_id, data_ref) of a peer: it blocks until the frame this
\* endpoint has written is on the bus, then reads it, or meets an error
PeerReceive ==
    /\ pc = "returned"
    /\ call.op = "send"
    /\ oswrite.called
    /\ oswrite.res = oswrite.size
    /\ rx = NoRx
    /\ \E ok \in BOOLEAN :
          \E got \in {IF ok THEN Received(oswrite.buf, CAN_FD_DATA_LEN,
                                          [kind |-> call.kind, can_id |-> call.can_id,
                                           pat |-> call.pat, len |-> call.len])
                            ELSE [event |-> "error", n |-> 0]} :
             rx' = [got EXCEPT !.n = BlockingResult(got.event, got.n)]
    /\ UNCHANGED <<pc, ifname, sock_init, ifrVars, m_can_init, m_last_error,
                   errno, oscalls, call, ret, oswrite, rdEnd, wrEnd>>

\* receive(can_id, data_ref, timeout_us): an endpoint that is not initialised
\* returns -1 without a call to the OS, an initialised one waits
receive_timed(timeout_us) ==
    /\ pc = "idle"
    /\ call' = [op |-> "receive", timeout_us |-> timeout_us,
                ready |-> is_can_initialized, last_error |-> m_last_error]
    /\ IF is_can_initialized
       THEN /\ pc' = "waiting"
            /\ ret' = <<>>
            /\ rx' = NoRx
       ELSE /\ pc' = "returned"
            /\ ret' = <<-1>>
            /\ rx' = [event |-> "not_ready"]
    /\ UNCHANGED <<ifname, sock_init, ifrVars, m_can_init, m_last_error, errno,
                   oscalls, oswrite, rdEnd, wrEnd>>

\* the caller, between two calls, calls the receive with a timeout
CallReceive ==
    /\ pc = "idle"
    /\ \E timeout_us \in Timeouts : receive_timed(timeout_us)

\* a frame arrives before the timeout has elapsed: it is read and decoded
\* into the container of the classic shape
FrameArrives ==
    /\ pc = "waiting"
    /\ \E kind \in Kinds, msg \in Messages :
          \E len \in RxLens(kind) :
             \E got \in {Received(WireFrame(kind, msg[1], msg[2], len),
                                  CAN_STD_DATA_LEN,
                                  [kind |-> kind, can_id |-> msg[1],
                                   pat |-> msg[2], len |-> len])} :
                /\ rx' = got
                /\ ret' = <<TimedResult(got.event, got.n)>>
    /\ pc' = "returned"
    /\ UNCHANGED <<ifname, sock_init, ifrVars, m_can_init, m_last_error, errno,
                   oscalls, call, oswrite, rdEnd, wrEnd>>

\* the timeout elapses and no frame has arrived
TimeoutElapses ==
    /\ pc = "waiting"
    /\ rx' = [event |-> "timeout"]
    /\ ret' = <<TimedResult("timeout", 0)>>
    /\ pc' = "returned"
    /\ UNCHANGED <<ifname, sock_init, ifrVars, m_can_init, m_last_error, errno,
                   oscalls, call, oswrite, rdEnd, wrEnd>>

\* the wait or the read fails: the error code is kept as the last error
ReceiveFails ==
    /\ pc = "waiting"
    /\ errno' \in Errnos
    /\ m_last_error' = errno'
    /\ rx' = [event |-> "error", err |-> errno']
    /\ ret' = <<TimedResult("error", -1)>>
    /\ pc' = "returned"
    /\ UNCHANGED <<ifname, sock_init, ifrVars, m_can_init, oscalls, call,
                   oswrite, rdEnd, wrEnd>>

\* the caller sends a payload that fits the container
CallInCapacity ==
    /\ pc = "idle"
    /\ \E kind \in Kinds, msg \in Messages :
          \E len \in 1..Capacity(kind) :
             send(kind, msg[1], msg[2], len)

NextReceive ==
    \/ SocketBase
    \/ CtorSocketFailed
    \/ CtorCheckInterface
    \/ CtorBind
    \/ CtorEnableCanfd
    \/ CallInCapacity
    \/ PeerReceive
    \/ CallReceive
    \/ FrameArrives
    \/ TimeoutElapses
    \/ ReceiveFails
    \/ Resume

\* the OS timer of the wait runs down: a wait that lasts ends with the timeout
SpecReceive == Init /\ [][NextReceive]_vars /\ WF_vars(TimeoutElapses)

(***************************************************************************)
(* Properties                                                              *)
(***************************************************************************)
\* the constructor has returned
Constructed == pc \in {"idle", "returned", "aborted"}

\* the initialisation pipeline, in order
Pipeline == <<"socket", "if_nametoindex", "bind", "setsockopt">>

\* all four initialisation steps were made and succeeded
AllStepsOk ==
    /\ Len(oscalls) = Len(Pipeline)
    /\ \A i \in 1..Len(oscalls) : oscalls[i].ok

\* a send call is in the state: it returned or it terminated the process
SendCalled == call.op = "send"

\* min(length, capacity) of the send call in the state
EffectiveLength == Min(call.len, Capacity(call.kind))

\* C1: once the constructor has returned the endpoint is Ready or Failed
\* (is_can_initialized() is a boolean), and it is Ready exactly if socket
\* creation, interface resolution, bind and enabling CAN FD all succeeded;
\* a failing step leaves it Failed.
C1_ReadyIffAllStepsOk ==
    Constructed =>
        /\ is_can_initialized \in BOOLEAN
        /\ is_can_initialized <=> AllStepsOk
        /\ (\E i \in 1..Len(oscalls) : ~oscalls[i].ok) => ~is_can_initialized

\* the endpoint came out Ready after four successful steps
C1_Witness == pc = "idle" /\ is_can_initialized /\ AllStepsOk

\* C2: the initialisation calls are made in pipeline order, each at most once
\* and each only after all earlier ones succeeded; when the interface lookup
\* returned index 0, bind and setsockopt are not called and the endpoint is
\* Failed.
C2_OrderedShortCircuit ==
    /\ Len(oscalls) <= Len(Pipeline)
    /\ \A i \in 1..Len(oscalls) : oscalls[i].fn = Pipeline[i]
    /\ \A i \in 1..(Len(oscalls) - 1) : oscalls[i].ok
    /\ (Len(oscalls) >= 2 /\ m_ifr_ifindex = 0) =>
          /\ Len(oscalls) = 2
          /\ Constructed
          /\ ~is_can_initialized

\* construction on a name the OS does not know stopped after the lookup
C2_Witness ==
    /\ pc = "idle"
    /\ ifname = NameNoCan
    /\ m_ifr_ifindex = 0
    /\ Len(oscalls) = 2
    /\ ~is_can_initialized

\* C3: a send on a Failed endpoint returns -1 and makes no OS write, whatever
\* the identifier, container and length.
C3_FailedSendRejected ==
    (SendCalled /\ ~call.ready) =>
        /\ pc = "returned"
        /\ ret = <<-1>>
        /\ ~oswrite.called

\* a send of the largest length and container on a Failed endpoint returned -1
C3_Witness ==
    /\ SendCalled
    /\ ~call.ready
    /\ call.len = UINT8_MAX
    /\ call.kind = "FD"
    /\ ret = <<-1>>

\* C4: a send with length 0 returns -1 and makes no OS write, on a Ready and
\* on a Failed endpoint.
C4_ZeroLengthRejected ==
    (SendCalled /\ call.len = 0) =>
        /\ pc = "returned"
        /\ ret = <<-1>>
        /\ ~oswrite.called

\* a send with length 0 on a Ready endpoint returned -1
C4_Witness == SendCalled /\ call.ready /\ call.len = 0 /\ ret = <<-1>>

C6_CopyWithinBounds ==
    (SendCalled /\ call.ready /\ call.len > 0) =>
        /\ rdEnd <= Capacity(call.kind)
        /\ wrEnd <= EffectiveLength
        /\ DataOff + wrEnd <= CANFD_MTU

\* C7: in every envelope handed to the OS write, every byte other than the
\* identifier, the length field and the first effective-length payload bytes
\* is zero.
C7_NoStaleBytes ==
    oswrite.called =>
        \A o \in 0..(oswrite.size - 1) :
            (/\ o >= LenOff + 1
             /\ ~(o >= DataOff /\ o < DataOff + EffectiveLength))
            => oswrite.buf[o] = 0

\* a CAN FD frame with one payload byte was handed to the OS write
C7_Witness == oswrite.called /\ call.kind = "FD" /\ call.len = 1

\* C8: the size passed to the OS write is 16 for the classic container and 72
\* for the CAN FD container, whatever the length argument.
C8_EnvelopeSize ==
    oswrite.called =>
        /\ oswrite.size = IF call.kind = "STD" THEN 16 ELSE 72
        /\ DOMAIN oswrite.buf = 0..(oswrite.size - 1)

\* a classic frame was written for a send with the largest in-range length
C8_Witness ==
    /\ oswrite.called
    /\ call.kind = "STD"
    /\ call.len = CAN_STD_DATA_LEN
    /\ oswrite.size = 16

\* C9: when the OS write of a send returns <= 0, the last error is the OS
\* error code of that write, replacing any earlier code, and send returns -1.
C9_WriteFailureRecorded ==
    (oswrite.called /\ oswrite.res <= 0) =>
        /\ m_last_error = oswrite.err
        /\ pc = "returned" => ret = <<-1>>

\* a failed write replaced an earlier, different error code
C9_Witness ==
    /\ pc = "returned"
    /\ oswrite.called
    /\ oswrite.res = -1
    /\ ret = <<-1>>
    /\ call.last_error # 0
    /\ call.last_error # m_last_error

\* C10: a send whose write succeeded, a send on a Failed endpoint and a send
\* with length 0 leave the last error as it was; send(0x123, [1..8], 8) whose
\* write reports 16 bytes returns 16.
C10_LastErrorOnlyOnFailure ==
    /\ (SendCalled /\ (~oswrite.called \/ oswrite.res > 0)) =>
          m_last_error = call.last_error
    /\ (/\ SendCalled
        /\ pc = "returned"
        /\ call.ready
        /\ call.kind = "STD"
        /\ call.can_id = 291
        /\ call.pat = 1
        /\ call.len = 8
        /\ oswrite.res = 16) =>
          /\ ret = <<16>>
          /\ m_last_error = call.last_error

\* send(0x123, [1..8], 8) returned 16 after an earlier send had failed
C10_Witness ==
    /\ pc = "returned"
    /\ SendCalled
    /\ call.kind = "STD"
    /\ call.can_id = 291
    /\ call.pat = 1
    /\ call.len = 8
    /\ ret = <<16>>
    /\ call.last_error # 0
    /\ m_last_error = call.last_error

\* the call in progress or just finished is the receive with a timeout
ReceiveCalled == call.op = "receive"

\* the value returned tells the three outcomes apart
TimedOutcome ==
    (ReceiveCalled /\ pc = "returned") =>
        /\ rx.event \in {"frame", "timeout", "error", "not_ready"}
        /\ rx.event = "frame" =>
              /\ ret[1] > 0
              /\ rx.can_id = rx.from.can_id
              /\ \A i \in 0..(Min(rx.from.len, CAN_STD_DATA_LEN) - 1) :
                    rx.data[i] = Payload(rx.from.kind, rx.from.pat)[i]
        /\ rx.event = "timeout" <=> ret = <<0>>
        /\ rx.event = "error" => (ret = <<-1>> /\ m_last_error = rx.err)
        /\ ret[1] < 0 => rx.event \in {"error", "not_ready"}

\* C11: the receive with a timeout has three outcomes that cannot be taken
\* for one another: a frame arrived, and it returns a positive value with the
\* identifier and the payload of the frame; no frame arrived before the timeout
\* elapsed, and it returns exactly 0; the OS reported an error, and it returns
\* -1 with the error code as the last error.  It returns 0 only after a timeout
\* and a negative value never after one, and a wait always ends.
C11_TimedReceiveOutcomes ==
    /\ []TimedOutcome
    /\ (pc = "waiting") ~> (pc = "returned")

\* a wait of 1000 microseconds ended with the timeout and returned 0
C11_Witness ==
    /\ pc = "returned"
    /\ ReceiveCalled
    /\ call.timeout_us = 1000
    /\ rx.event = "timeout"
    /\ ret = <<0>>

\* C12: a frame with identifier I and a payload of 1 .. capacity bytes, sent
\* by a ready endpoint and taken from the bus by the blocking receive of a
\* peer, arrives with identifier I, its first bytes equal to the payload and
\* all further bytes up to 64 zero, for both frame shapes.
C12_RoundTrip ==
    (/\ rx.event = "frame"
     /\ SendCalled
     /\ call.ready
     /\ call.len >= 1
     /\ call.len <= Capacity(call.kind)) =>
        /\ rx.n > 0
        /\ rx.can_id = call.can_id
        /\ \A i \in 0..(CAN_FD_DATA_LEN - 1) :
              rx.data[i] = IF i < call.len
                           THEN Payload(call.kind, call.pat)[i]
                           ELSE 0

\* the peer got identifier 0x123 and the bytes 1..8, then zeros up to 64,
\* from a classic frame
C12_Witness ==
    /\ rx.event = "frame"
    /\ SendCalled
    /\ call.kind = "STD"
    /\ call.len = CAN_STD_DATA_LEN
    /\ rx.can_id = 291
    /\ rx.data[0] = 1
    /\ rx.data[CAN_STD_DATA_LEN - 1] = 8
    /\ rx.data[CAN_FD_DATA_LEN - 1] = 0

\* C13: once the constructor has returned, no send changes the value of
\* is_can_initialized(): a Failed endpoint stays Failed, a Ready endpoint
\* stays Ready, also after a failed write.
C13_ReadinessFixed ==
    [][Constructed => (is_can_initialized' = is_can_initialized)]_vars

\* a Ready endpoint is still Ready after a send whose write failed
C13_Witness ==
    /\ pc = "returned"
    /\ SendCalled
    /\ call.ready
    /\ oswrite.called
    /\ oswrite.res = -1
    /\ is_can_initialized

\* C14: a send that returns after its write reported a byte count > 0
\* returns exactly that count, for every count from 1 to the envelope size;
\* a write of the whole envelope returns 16 (classic) or 72 (CAN FD).
C14_ReturnsByteCount ==
    (SendCalled /\ pc = "returned" /\ oswrite.called /\ oswrite.res > 0) =>
        /\ ret = <<oswrite.res>>
        /\ ret[1] > 0
        /\ oswrite.res = oswrite.size =>
              ret = <<IF call.kind = "STD" THEN 16 ELSE 72>>

\* a send of a CAN FD frame returned 72 after the write reported 72 bytes
C14_Witness ==
    /\ pc = "returned"
    /\ SendCalled
    /\ call.kind = "FD"
    /\ oswrite.called
    /\ oswrite.res = 72
    /\ ret = <<72>>

\* the first IFNAMSIZ - 1 characters of a name, or all of it when shorter
Truncated(name) ==
    SubSeq(name, 1, IF Len(name) < IFNAMSIZ - 1 THEN Len(name) ELSE IFNAMSIZ - 1)

\* check_interface has run
LookedUp == Len(oscalls) >= 2

\* check_interface returned TRUE: the constructor went on to bind
ReportedExists == pc = "bind" \/ Len(oscalls) >= 3

\* C15: after check_interface the stored name is terminated and holds the
\* input cut to at most IFNAMSIZ - 1 characters, and the interface is
\* reported to exist exactly if the OS has a nonzero index for that name.
C15_InterfaceResolution ==
    LookedUp =>
        /\ m_ifr_name[IFNAMSIZ] = 0
        /\ CStr(m_ifr_name, 1) = Truncated(ifname)
        /\ Len(CStr(m_ifr_name, 1)) <= IFNAMSIZ - 1
        /\ m_ifr_ifindex = OsIfIndex(Truncated(ifname))
        /\ ReportedExists <=> (OsIfIndex(Truncated(ifname)) # 0)

\* a name longer than IFNAMSIZ was cut to the name of a registered interface
C15_Witness ==
    /\ pc = "bind"
    /\ ifname = LongName(IFNAMSIZ + 1)
    /\ m_ifr_ifindex = 4

====
